---------------------------- MODULE Spec2Model ----------------------------
(***************************************************************************)
(* A model of the row annotation session of peak_selector.py: the module   *)
(* globals (data, current_row_index, num_rows, selected_points, results,   *)
(* peak_candidates) and the event handlers that change them.               *)
(*                                                                         *)
(* Python dicts are objects held by reference: results[i] and              *)
(* selected_points name dict objects, and two names may hold the same      *)
(* object.  The model keeps the objects in `heap` and the names as object  *)
(* ids.  Ids are renumbered after every handler (Canon) in the order the   *)
(* objects are met in results[0], results[1], ..., selected_points, and    *)
(* objects no name holds any more are dropped, as the garbage collector    *)
(* does; an id has no meaning beyond which names share it.                 *)
(***************************************************************************)
EXTENDS Integers, Sequences, FiniteSets, TLC

\* ------------------------------------------------------------------ values

\* Python's None; also the value of an unset slot.
None == << >>

\* A cell pd.to_numeric(errors='coerce') could not read: numpy's NaN.
NaN == -1

\* ------------------------------------------------------------------ bounds

\* Pointer clicks land on data coordinates 0..MaxClickX by 0..MaxClickY.
MaxClickX == 3
MaxClickY == 2

\* The tables a file dialog can hand over.  columns are the x positions
\* (header=None, index_col=0 numbers the value columns 1, 2, ...), index the
\* row labels, rows the y values of each row.
Files ==
  << [index |-> <<"a", "b", "c">>, columns |-> <<1, 2, 3>>,
      rows |-> << <<0, 2, 0>>, <<1, 0, 1>>, <<0, 1, 0>> >>],
     [index |-> <<"d">>, columns |-> <<1, 2, 3>>,
      rows |-> << <<2, NaN, 1>> >>] >>

\* What the operator may type at one prompt of manual_input, as characters.
Texts ==
  { << >>,
    <<"2", ",", " ", "1">>,
    <<"2", ",", "x">> }

\* ----------------------------------------------------------------- helpers

\* len(data), for a loaded table.
Len_data(d) == Len(d.rows)

\* data is None or data.empty
NoData(d) == d = None \/ Len(d.rows) = 0

\* The dict {'top': None, 'left': None, 'right': None}.
EmptySelection == [left |-> None, top |-> None, right |-> None]

Slots == {"left", "top", "right"}

\* Comparison of two cells as numpy does it: any comparison with NaN is false.
Less(a, b) == a # NaN /\ b # NaN /\ a < b
Same(a, b) == a # NaN /\ b # NaN /\ a = b


\* ------------------------------------------------------------ peak finding

\* scipy.signal.find_peaks as update_plot calls it: the positions (1-based)
\* of the local maxima of y, in ascending order.  A maximum is a run l..r of
\* equal cells strictly inside y whose two neighbours are lower; its position
\* is the middle of the run, (l + r) // 2.  On the whole-number cells of Files
\* every such maximum has prominence >= 1 and width >= 1, so the thresholds
\* PEAK_PROMINENCE = 0.1 and PEAK_WIDTH = 1 remove none of them.
IsPeak(y, p) ==
  \E l \in 2..(Len(y) - 1) : \E r \in l..(Len(y) - 1) :
     /\ (l + r) \div 2 = p
     /\ Less(y[l - 1], y[l])
     /\ \A k \in l..r : Same(y[k], y[l])
     /\ Less(y[r + 1], y[r])

find_peaks(y) ==
  SelectSeq([i \in 1..Len(y) |-> i], LAMBDA p : IsPeak(y, p))

\* find_potential_peaks: the same detection after every NaN cell is set to 0.
find_potential_peaks(y) ==
  find_peaks([i \in 1..Len(y) |-> IF y[i] = NaN THEN 0 ELSE y[i]])

\* row_data.values: the cells of row i of table d, as loaded.
y_data(d, i) == d.rows[i + 1]

\* The sequence update_plot hands to find_peaks for row i: y_data itself.
peak_finder_input(d, i) == y_data(d, i)

\* [(x_data[p], y_data[p]) for p in peaks] for row i of table d, as
\* update_plot computes it (with find_peaks on the row's cells as they are).
Candidates(d, i) ==
  LET y == y_data(d, i)
      peaks == find_peaks(peak_finder_input(d, i))
  IN  [k \in 1..Len(peaks) |-> <<d.columns[peaks[k]], y[peaks[k]]>>]

\* ----------------------------------------------------------------- snapping

\* (x - event.xdata)**2 + (y - event.ydata)**2; NaN when the cell is NaN.
Distance(x, y, qx, qy) ==
  IF y = NaN THEN NaN ELSE (x - qx) * (x - qx) + (y - qy) * (y - qy)

\* np.argmin(distances), 1-based: the first NaN when there is one (numpy
\* orders NaN below every number), and the first least distance otherwise.
ArgMin(dist) ==
  IF \E i \in 1..Len(dist) : dist[i] = NaN
  THEN CHOOSE i \in 1..Len(dist) :
         dist[i] = NaN /\ \A j \in 1..(i - 1) : dist[j] # NaN
  ELSE CHOOSE i \in 1..Len(dist) :
         /\ \A j \in 1..Len(dist) : dist[i] <= dist[j]
         /\ \A j \in 1..(i - 1) : dist[j] > dist[i]

\* closest_idx for a click at (qx, qy) on row i of table d, 1-based.
closest_idx(d, i, qx, qy) ==
  LET y == d.rows[i + 1]
  IN  ArgMin([k \in 1..Len(y) |-> Distance(d.columns[k], y[k], qx, qy)])

\* A variant of closest_point: the click's own coordinates, unsnapped.
closest_point_raw(d, i, qx, qy) == <<qx, qy>>

\* A variant of closest_point: the click is snapped to the samples of the first
\* row, whatever row is shown.
closest_point_first_row(d, i, qx, qy) ==
  <<d.columns[closest_idx(d, 0, qx, qy)], d.rows[1][closest_idx(d, 0, qx, qy)]>>

\* (closest_x, closest_y)
closest_point(d, i, qx, qy) ==
  <<d.columns[closest_idx(d, i, qx, qy)], d.rows[i + 1][closest_idx(d, i, qx, qy)]>>

\* ------------------------------------------------------------------ parsing

Digits == {"0", "1", "2", "3", "4", "5", "6", "7", "8", "9"}

DigitValue(c) ==
  CASE c = "0" -> 0 [] c = "1" -> 1 [] c = "2" -> 2 [] c = "3" -> 3
    [] c = "4" -> 4 [] c = "5" -> 5 [] c = "6" -> 6 [] c = "7" -> 7
    [] c = "8" -> 8 [] c = "9" -> 9

\* str.split(','): the pieces of s between its commas.
RECURSIVE split(_)
split(s) ==
  IF \A k \in 1..Len(s) : s[k] # ","
  THEN << s >>
  ELSE LET c == CHOOSE k \in 1..Len(s) :
                   s[k] = "," /\ \A j \in 1..(k - 1) : s[j] # ","
       IN  << SubSeq(s, 1, c - 1) >> \o split(SubSeq(s, c + 1, Len(s)))

\* str.strip(): s without its leading and trailing blanks.
RECURSIVE strip(_)
strip(s) ==
  IF s = << >> THEN s
  ELSE IF Head(s) = " " THEN strip(Tail(s))
  ELSE IF s[Len(s)] = " " THEN strip(SubSeq(s, 1, Len(s) - 1))
  ELSE s

\* float(s) for the numerals the model types: one or more decimal digits.
\* Anything else raises ValueError.
FloatOK(s) == s # << >> /\ \A k \in 1..Len(s) : s[k] \in Digits

RECURSIVE float(_)
float(s) ==
  IF Len(s) = 1 THEN DigitValue(s[1])
  ELSE 10 * float(SubSeq(s, 1, Len(s) - 1)) + DigitValue(s[Len(s)])

\* x_str, y_str = text.split(','); float(x_str.strip()); float(y_str.strip()):
\* whether the two statements run without raising ValueError.
ParseOK(text) ==
  /\ Len(split(text)) = 2
  /\ FloatOK(strip(split(text)[1]))
  /\ FloatOK(strip(split(text)[2]))

\* (float(x_str.strip()), float(y_str.strip()))
Parse(text) == <<float(strip(split(text)[1])), float(strip(split(text)[2]))>>

\* -------------------------------------------------------------------- state

VARIABLES
  data,               \* the loaded table (a member of Files), or None
  num_rows,           \* data.shape[0]
  current_row_index,
  results,            \* row index -> id of the row's dict object
  selected_points,    \* id of the dict object the global names
  heap,               \* id -> the dict object: [left, top, right]
  peak_candidates,    \* row index -> list of (x, y); rows are added lazily
  last,               \* history: the command the last event ran, "none" if it ran none
  came_from,          \* history: current_row_index before that command
  steps,              \* history: the events handled so far
  clicks,             \* history: length of the current run of clicks (see on_click)
  calls,              \* history: row index -> find_peaks calls since the table was loaded
  keys,               \* the keys of results in the order the dict holds them
  output_data,        \* history: the records the last event's save_results built
  saved_plots,        \* history: the save_plot calls of the last event, in order
  typed               \* history: manual_input has asked for coordinates

vars == <<data, num_rows, current_row_index, results, selected_points, heap,
          peak_candidates, last, came_from, steps, clicks, calls, keys,
          output_data, saved_plots, typed>>

\* The handler builds no records and calls save_plot for no row.
NoExport == output_data' = << >> /\ saved_plots' = << >>

\* The handler returns at once (or the event is not one it handles): no
\* command ran.
Skip ==
  /\ last' = "none"
  /\ NoExport
  /\ UNCHANGED typed
  /\ UNCHANGED <<data, num_rows, current_row_index, results, selected_points,
                 heap, peak_candidates, came_from, clicks, calls, keys>>

\* The find_peaks calls counted per row stop at MaxCalls.
MaxCalls == 2

\* A run handles at most MaxSteps events.
MaxSteps == 4

\* results[i], read through the reference.
Selection(i) == heap[results[i]]

\* A dict created by the running handler gets the next unused id.
NewId(hp) == Cardinality(DOMAIN hp)

\* The names res (row -> id), sp (id) and the objects hp, renumbered in the
\* order results[0], results[1], ..., selected_points meet them; objects that
\* no name holds are dropped.
Canon(res, sp, hp) ==
  LET n == Cardinality(DOMAIN res)
      order == [i \in 1..(n + 1) |-> IF i <= n THEN res[i - 1] ELSE sp]
      firsts == SelectSeq([i \in 1..(n + 1) |-> i],
                          LAMBDA i : \A j \in 1..(i - 1) : order[j] # order[i])
      rank(o) == CHOOSE k \in 0..(Len(firsts) - 1) : order[firsts[k + 1]] = o
  IN  [results |-> [i \in 0..(n - 1) |-> rank(res[i])],
       selected_points |-> rank(sp),
       heap |-> [k \in 0..(Len(firsts) - 1) |-> hp[order[firsts[k + 1]]]]]

\* The handler leaves the names and objects res, sp, hp behind.
Store(res, sp, hp) ==
  LET c == Canon(res, sp, hp)
  IN  /\ results' = c.results
      /\ selected_points' = c.selected_points
      /\ heap' = c.heap

\* ------------------------------------------------------------- update_plot

\* A variant of ComputesPeaks: the row is looked up anew at every redraw.
ComputesPeaks_always(d, i, pc) == ~ (NoData(d) \/ i >= Len_data(d))

\* Whether update_plot, run with table d, current row i and cache pc, calls
\* find_peaks: the row is valid and not yet in peak_candidates.
ComputesPeaks(d, i, pc) ==
  /\ ~ (NoData(d) \/ i >= Len_data(d))
  /\ i \notin DOMAIN pc

\* peak_candidates after update_plot.
update_plot(d, i, pc) ==
  IF ComputesPeaks(d, i, pc) THEN (i :> Candidates(d, i)) @@ pc ELSE pc

\* The call count after update_plot.
Counted(d, i, pc, c) ==
  IF ComputesPeaks(d, i, pc) /\ c[i] < MaxCalls
  THEN [c EXCEPT ![i] = c[i] + 1] ELSE c

\* The handler ends in update_plot() with current row i.
Redraw(i) ==
  /\ peak_candidates' = update_plot(data, i, peak_candidates)
  /\ calls' = Counted(data, i, peak_candidates, calls)

\* --------------------------------------------------------------------- Init

\* {i: {'top': None, 'left': None, 'right': None} for i in range(n)}: n new
\* dict objects, placed after the objects of hp.
NewResults(n, hp) == [i \in 0..(n - 1) |-> NewId(hp) + i]

NewObjects(n, hp) ==
  [k \in 0..(NewId(hp) + n - 1) |-> IF k \in DOMAIN hp THEN hp[k] ELSE EmptySelection]

\* range(n), the order in which the dict comprehension over range(num_rows)
\* inserts the keys of results.
range(n) == [k \in 1..n |-> k - 1]

\* The keys after results[i] = ...: a key the dict holds keeps its place, a
\* new key goes to the end.
setitem(ks, i) ==
  IF \E k \in 1..Len(ks) : ks[k] = i THEN ks ELSE Append(ks, i)

\* The state when plt.show() starts to deliver events: a file was chosen and
\* loaded, results holds one fresh dict per row, selected_points is the dict
\* of the module's first lines, and update_plot() has drawn row 0.
Init ==
  \E f \in 1..Len(Files) :
    /\ data = Files[f]
    /\ num_rows = Len_data(Files[f])
    /\ current_row_index = 0
    /\ LET hp0 == (0 :> EmptySelection)
           c == Canon(NewResults(Len_data(Files[f]), hp0), 0,
                      NewObjects(Len_data(Files[f]), hp0))
       IN  /\ results = c.results
           /\ selected_points = c.selected_points
           /\ heap = c.heap
    /\ peak_candidates = update_plot(Files[f], 0, << >>)
    /\ calls = Counted(Files[f], 0, << >>, [i \in 0..(Len_data(Files[f]) - 1) |-> 0])
    /\ last = "start"
    /\ came_from = 0
    /\ steps = 0
    /\ clicks = 0
    /\ keys = range(Len_data(Files[f]))
    /\ output_data = << >>
    /\ saved_plots = << >>
    /\ typed = FALSE

\* ----------------------------------------------------------------- on_click

\* A variant of point_type: a click on a full row overwrites RIGHT.
point_type_overwrite(sel) ==
  IF sel.left = None THEN "left"
  ELSE IF sel.top = None THEN "top"
  ELSE "right"

\* A variant of point_type: the slot is chosen by how many slots are set, not
\* by which.
point_type_by_count(sel) ==
  LET filled == Cardinality({slot \in Slots : sel[slot] # None})
  IN  CASE filled = 0 -> "left" [] filled = 1 -> "top"
        [] filled = 2 -> "right" [] filled = 3 -> "reset"

\* A variant of point_type: TOP is asked for first, then LEFT, then RIGHT.
point_type_top_first(sel) ==
  IF sel.top = None THEN "top"
  ELSE IF sel.left = None THEN "left"
  ELSE IF sel.right = None THEN "right"
  ELSE "reset"

\* The if/elif chain of on_click: the slot the click fills, or "reset" when
\* all three are set.
point_type(sel) ==
  IF sel.left = None THEN "left"
  ELSE IF sel.top = None THEN "top"
  ELSE IF sel.right = None THEN "right"
  ELSE "reset"

\* A pointer click; inaxes says whether it fell inside the plot, (qx, qy) are
\* event.xdata and event.ydata.
\* clicks counts the clicks of a run: a run starts with a click on a row that
\* is all-unset and goes on as long as nothing but clicks happens, up to four.
on_click(inaxes, qx, qy) ==
  IF ~ inaxes \/ NoData(data)
  THEN Skip
  ELSE
    LET sel == Selection(current_row_index)
        slot == point_type(sel)
    IN  /\ IF slot = "reset"
           THEN /\ Store([results EXCEPT ![current_row_index] = NewId(heap)],
                         selected_points, NewObjects(1, heap))
                /\ keys' = setitem(keys, current_row_index)
           ELSE /\ Store(results, selected_points,
                         [heap EXCEPT ![results[current_row_index]][slot] =
                            closest_point(data, current_row_index, qx, qy)])
                /\ UNCHANGED keys
        /\ Redraw(current_row_index)
        /\ NoExport
        /\ UNCHANGED typed
        /\ clicks' = IF clicks \in 1..3 THEN clicks + 1
                     ELSE IF sel = EmptySelection THEN 1 ELSE 0
        /\ last' = "click"
        /\ came_from' = current_row_index
        /\ UNCHANGED <<data, num_rows, current_row_index>>

\* ----------------------------------------------------------- navigation

\* A variant of next_index: the last row is a stop, not a wrap.
next_index_clamp(i, n) == IF i + 1 < n THEN i + 1 ELSE i

\* (current_row_index + 1) % num_rows
next_index(i, n) == (i + 1) % n

\* (current_row_index - 1 + num_rows) % num_rows
prev_index(i, n) == (i - 1 + n) % n

\* A variant of GoTo: the row being left is reset on the way.
GoTo_reset(i, name) ==
  /\ current_row_index' = i
  /\ Store([results EXCEPT ![current_row_index] = NewId(heap)],
           selected_points, NewObjects(1, heap))
  /\ peak_candidates' = update_plot(data, i, peak_candidates)
  /\ calls' = Counted(data, i, peak_candidates, calls)
  /\ last' = name
  /\ came_from' = current_row_index
  /\ clicks' = 0
  /\ NoExport
  /\ UNCHANGED typed
  /\ UNCHANGED <<data, num_rows, keys>>

\* The body shared by the 'right' key and the Next Row button.
GoTo(i, name) ==
  /\ current_row_index' = i
  /\ Redraw(i)
  /\ last' = name
  /\ came_from' = current_row_index
  /\ clicks' = 0
  /\ NoExport
  /\ UNCHANGED typed
  /\ UNCHANGED <<data, num_rows, results, selected_points, heap, keys>>

next_row_button_clicked ==
  IF NoData(data) THEN Skip
  ELSE GoTo(next_index(current_row_index, num_rows), "next")

prev_row_button_clicked ==
  IF NoData(data) THEN Skip
  ELSE GoTo(prev_index(current_row_index, num_rows), "prev")

\* ---------------------------------------------------------- clear_selection

\* A variant of clear_selection: the new dict is not stored into results.
clear_selection_unstored ==
  IF NoData(data) THEN Skip
  ELSE /\ Store(results, NewId(heap), NewObjects(1, heap))
       /\ Redraw(current_row_index)
       /\ last' = "clear"
       /\ came_from' = current_row_index
       /\ clicks' = 0
       /\ NoExport
       /\ UNCHANGED typed
       /\ UNCHANGED <<data, num_rows, current_row_index, keys>>

clear_selection ==
  IF NoData(data) THEN Skip
  ELSE /\ Store([results EXCEPT ![current_row_index] = NewId(heap)],
                NewId(heap), NewObjects(1, heap))
       /\ keys' = setitem(keys, current_row_index)
       /\ Redraw(current_row_index)
       /\ last' = "clear"
       /\ came_from' = current_row_index
       /\ clicks' = 0
       /\ NoExport
       /\ UNCHANGED typed
       /\ UNCHANGED <<data, num_rows, current_row_index>>

\* ------------------------------------------------------------- manual_input

\* What one prompt does with each text of Texts: ok is FALSE when the text
\* raises ValueError; point is the pair to store, None for a blank text
\* (if text: is false for the empty string only).
Prompt ==
  [text \in Texts |->
     IF text = << >> THEN [ok |-> TRUE, point |-> None]
     ELSE IF ParseOK(text) THEN [ok |-> TRUE, point |-> Parse(text)]
     ELSE [ok |-> FALSE, point |-> None]]

\* One prompt runs to its end: the text is blank, or it parses.
FieldOK(text) == Prompt[text].ok

\* if text: selected_points[slot] = (float(...), float(...))
SetField(hp, slot, text) ==
  IF text = << >> THEN hp
  ELSE [hp EXCEPT ![selected_points][slot] = Prompt[text].point]

\* The three prompts in the order TOP, LEFT, RIGHT.  A ValueError leaves the
\* try block: the prompts and the assignment after it do not run, what was
\* written into the selected_points object before it stays.
manual_input(top_str, left_str, right_str) ==
  IF NoData(data) THEN Skip
  ELSE
    LET ok1 == FieldOK(top_str)
        h1 == IF ok1 THEN SetField(heap, "top", top_str) ELSE heap
        ok2 == ok1 /\ FieldOK(left_str)
        h2 == IF ok2 THEN SetField(h1, "left", left_str) ELSE h1
        ok3 == ok2 /\ FieldOK(right_str)
        h3 == IF ok3 THEN SetField(h2, "right", right_str) ELSE h2
    IN  /\ IF ok3
           THEN /\ Store([results EXCEPT ![current_row_index] = selected_points],
                         selected_points, h3)
                /\ keys' = setitem(keys, current_row_index)
                /\ Redraw(current_row_index)
           ELSE /\ Store(results, selected_points, h3)
                /\ UNCHANGED <<peak_candidates, calls, keys>>
        /\ last' = "manual"
        /\ came_from' = current_row_index
        /\ clicks' = 0
        /\ NoExport
        /\ typed' = TRUE
        /\ UNCHANGED <<data, num_rows, current_row_index>>

\* --------------------------------------------------------- change_data_file

\* change_data_file returns before it assigns anything.
Kept(name) ==
  /\ last' = name
  /\ NoExport
  /\ UNCHANGED typed
  /\ UNCHANGED <<data, num_rows, current_row_index, results, selected_points,
                 heap, peak_candidates, came_from, clicks, calls, keys>>

\* A variant of change_data_file: peak_candidates is not cleared.
change_data_file_keepcache(new_file, new_data) ==
  IF ~ new_file \/ NoData(new_data)
  THEN Skip
  ELSE /\ data' = new_data
       /\ num_rows' = Len_data(new_data)
       /\ current_row_index' = 0
       /\ Store(NewResults(Len_data(new_data), heap), selected_points,
                NewObjects(Len_data(new_data), heap))
       /\ peak_candidates' = update_plot(new_data, 0, peak_candidates)
       /\ calls' = Counted(new_data, 0, << >>,
                           [i \in 0..(Len_data(new_data) - 1) |-> 0])
       /\ keys' = range(Len_data(new_data))
       /\ last' = "open"
       /\ came_from' = current_row_index
       /\ clicks' = 0
       /\ NoExport
       /\ UNCHANGED typed

\* A variant of change_data_file: the row index and the cache are reset as soon
\* as a file is chosen, before the load is looked at.
change_data_file_eager(new_file, new_data) ==
  IF ~ new_file THEN Kept("cancelled")
  ELSE /\ data' = (IF NoData(new_data) THEN data ELSE new_data)
       /\ num_rows' = Len_data(data')
       /\ current_row_index' = 0
       /\ IF NoData(new_data)
          THEN UNCHANGED <<results, selected_points, heap, keys>>
          ELSE /\ Store(NewResults(Len_data(new_data), heap), selected_points,
                        NewObjects(Len_data(new_data), heap))
               /\ keys' = range(Len_data(new_data))
       /\ peak_candidates' = update_plot(data', 0, << >>)
       /\ calls' = Counted(data', 0, << >>, [i \in 0..(Len_data(data') - 1) |-> 0])
       /\ last' = (IF NoData(new_data) THEN "load_failed" ELSE "open")
       /\ came_from' = current_row_index
       /\ clicks' = 0
       /\ NoExport
       /\ UNCHANGED typed

\* A variant of change_data_file: the row index is kept across the replacement.
change_data_file_keepindex(new_file, new_data) ==
  IF ~ new_file THEN Kept("cancelled")
  ELSE IF NoData(new_data) THEN Kept("load_failed")
  ELSE /\ data' = new_data
       /\ num_rows' = Len_data(new_data)
       /\ UNCHANGED current_row_index
       /\ Store(NewResults(Len_data(new_data), heap), selected_points,
                NewObjects(Len_data(new_data), heap))
       /\ peak_candidates' = update_plot(new_data, current_row_index, << >>)
       /\ calls' = [i \in 0..(Len_data(new_data) - 1) |-> 0]
       /\ keys' = range(Len_data(new_data))
       /\ last' = "open"
       /\ came_from' = current_row_index
       /\ clicks' = 0
       /\ NoExport
       /\ UNCHANGED typed

\* A variant of change_data_file: only the cache entry of row 0 is dropped, the
\* entries of the other rows stay.
change_data_file_keepothers(new_file, new_data) ==
  IF ~ new_file THEN Kept("cancelled")
  ELSE IF NoData(new_data) THEN Kept("load_failed")
  ELSE /\ data' = new_data
       /\ num_rows' = Len_data(new_data)
       /\ current_row_index' = 0
       /\ Store(NewResults(Len_data(new_data), heap), selected_points,
                NewObjects(Len_data(new_data), heap))
       /\ peak_candidates' =
            update_plot(new_data, 0,
                        [r \in DOMAIN peak_candidates \ {0} |-> peak_candidates[r]])
       /\ calls' = Counted(new_data, 0, << >>,
                           [i \in 0..(Len_data(new_data) - 1) |-> 0])
       /\ keys' = range(Len_data(new_data))
       /\ last' = "open"
       /\ came_from' = current_row_index
       /\ clicks' = 0
       /\ NoExport
       /\ UNCHANGED typed

\* A variant of change_data_file: results is not built anew for the new table.
change_data_file_keepresults(new_file, new_data) ==
  IF ~ new_file THEN Kept("cancelled")
  ELSE IF NoData(new_data) THEN Kept("load_failed")
  ELSE /\ data' = new_data
       /\ num_rows' = Len_data(new_data)
       /\ current_row_index' = 0
       /\ peak_candidates' = update_plot(new_data, 0, << >>)
       /\ calls' = Counted(new_data, 0, << >>,
                           [i \in 0..(Len_data(new_data) - 1) |-> 0])
       /\ last' = "open"
       /\ came_from' = current_row_index
       /\ clicks' = 0
       /\ NoExport
       /\ UNCHANGED <<results, selected_points, heap, keys, typed>>

\* The dialog returned new_file (FALSE: cancelled) and load_data(new_file)
\* returned new_data (None: the load failed).  Both early returns leave the
\* globals alone; last tells them apart.
change_data_file(new_file, new_data) ==
  IF ~ new_file THEN Kept("cancelled")
  ELSE IF NoData(new_data) THEN Kept("load_failed")
  ELSE /\ data' = new_data
       /\ num_rows' = Len_data(new_data)
       /\ current_row_index' = 0
       /\ Store(NewResults(Len_data(new_data), heap), selected_points,
                NewObjects(Len_data(new_data), heap))
       /\ peak_candidates' = update_plot(new_data, 0, << >>)
       /\ calls' = Counted(new_data, 0, << >>,
                           [i \in 0..(Len_data(new_data) - 1) |-> 0])
       /\ keys' = range(Len_data(new_data))
       /\ last' = "open"
       /\ came_from' = current_row_index
       /\ clicks' = 0
       /\ NoExport
       /\ UNCHANGED typed

\* A file whose rows are all dropped by dropna: a table without rows.
EmptyTable == [index |-> << >>, columns |-> << >>, rows |-> << >>]

\* What load_data can return: a table, a table without rows, or None.
Loaded == {Files[f] : f \in 1..Len(Files)} \cup {EmptyTable, None}

\* How the file dialog and the load can end: cancelled (load_data is not
\* called), or a file was chosen and load_data returned a member of Loaded.
Dialog ==
  {[new_file |-> FALSE, new_data |-> None]}
    \cup {[new_file |-> TRUE, new_data |-> d] : d \in Loaded}

\* ------------------------------------------------------------------- saving

\* A variant of Coordinate: an unset slot is written as 0.
Coordinate_sentinel(p, k) == IF p # None THEN << p[k] >> ELSE << 0 >>

\* points[slot][k] if points[slot] else None: a stored pair is a non-empty
\* tuple, which is true; k is 1 for x and 2 for y.  A field that holds the
\* number v is written << v >>, which keeps it apart from None.
Coordinate(p, k) == IF p # None THEN << p[k] >> ELSE None

\* The dict save_results appends for row row_idx, whose selections are points.
Record(d, row_idx, points) ==
  [RowLabel |-> d.index[row_idx + 1],
   Left_X |-> Coordinate(points.left, 1), Left_Y |-> Coordinate(points.left, 2),
   Top_X |-> Coordinate(points.top, 1), Top_Y |-> Coordinate(points.top, 2),
   Right_X |-> Coordinate(points.right, 1), Right_Y |-> Coordinate(points.right, 2)]

\* output_data after the loop over results.items(): one dict per key below
\* len(data), in the order of the keys.
Records(d, ks, res, hp) ==
  LET valid == SelectSeq(ks, LAMBDA row_idx : row_idx < Len_data(d))
  IN  [k \in 1..Len(valid) |-> Record(d, valid[k], hp[res[valid[k]]])]

\* What one call save_plot(row_idx) adds to saved_plots: nothing when the index
\* is past the table; ok is FALSE when the directory cannot be made or
\* fig.savefig raises, which save_plot reports and swallows.
SavedPlot(d, row_idx, ok) ==
  IF row_idx >= Len_data(d) THEN << >> ELSE << [row |-> row_idx, ok |-> ok] >>

\* A variant of save_results: when to_csv raises, results is built anew.
save_results_discard(csv_ok, plot_ok) ==
  IF NoData(data) THEN Skip
  ELSE /\ output_data' = Records(data, keys, results, heap)
       /\ saved_plots' = IF csv_ok THEN SavedPlot(data, current_row_index, plot_ok)
                                   ELSE << >>
       /\ IF csv_ok
          THEN UNCHANGED <<results, selected_points, heap>>
          ELSE Store(NewResults(num_rows, heap), selected_points,
                     NewObjects(num_rows, heap))
       /\ last' = "save"
       /\ came_from' = current_row_index
       /\ clicks' = 0
       /\ UNCHANGED <<data, num_rows, current_row_index, peak_candidates, calls,
                      keys, typed>>

\* save_results, save_plot and save_all_plots write files and leave the
\* globals as they are.  data_filepath is set whenever a table is loaded.
\* csv_ok is FALSE when to_csv raises: the plot of the current row is then not
\* saved.
save_results(csv_ok, plot_ok) ==
  IF NoData(data) THEN Skip
  ELSE /\ output_data' = Records(data, keys, results, heap)
       /\ saved_plots' = IF csv_ok THEN SavedPlot(data, current_row_index, plot_ok)
                                   ELSE << >>
       /\ last' = "save"
       /\ came_from' = current_row_index
       /\ clicks' = 0
       /\ UNCHANGED <<data, num_rows, current_row_index, results,
                      selected_points, heap, peak_candidates, calls, keys, typed>>

save_plot(ok) ==
  IF NoData(data) THEN Skip
  ELSE /\ output_data' = << >>
       /\ saved_plots' = SavedPlot(data, current_row_index, ok)
       /\ last' = "plot"
       /\ came_from' = current_row_index
       /\ clicks' = 0
       /\ UNCHANGED <<data, num_rows, current_row_index, results,
                      selected_points, heap, peak_candidates, calls, keys, typed>>

\* save_all_plots assigns current_row_index in its loop without declaring it
\* global, so the name is local and reading it in the first statement raises
\* UnboundLocalError: no row is drawn, save_plot is called for none.
save_all_plots ==
  /\ NoExport
  /\ UNCHANGED typed
  /\ last' = "save_all"
  /\ came_from' = current_row_index
  /\ clicks' = 0
  /\ UNCHANGED <<data, num_rows, current_row_index, results, selected_points,
                 heap, peak_candidates, calls, keys>>

\* ------------------------------------------------------------------- on_key

on_key(key) ==
  IF NoData(data) THEN Skip
  ELSE
    \/ key = "right" /\ GoTo(next_index(current_row_index, num_rows), "next")
    \/ key = "left" /\ GoTo(prev_index(current_row_index, num_rows), "prev")
    \/ key = "m" /\ \E t, l, r \in Texts : manual_input(t, l, r)
    \/ key = "c" /\ clear_selection
    \/ key = "s" /\ \E csv_ok, plot_ok \in BOOLEAN : save_results(csv_ok, plot_ok)
    \/ key = "o" /\ \E choice \in Dialog :
                      change_data_file(choice.new_file, choice.new_data)
    \/ key = "p" /\ \E ok \in BOOLEAN : save_plot(ok)
    \/ key = "a" /\ save_all_plots
    \/ key \notin {"right", "left", "m", "c", "s", "o", "p", "a"} /\ Skip

Keys == {"right", "left", "m", "c", "s", "o", "p", "a", "x"}

\* --------------------------------------------------------------------- Next

\* One more event is handled.
Tick == steps < MaxSteps /\ steps' = steps + 1

\* The events matplotlib delivers: a button press in the figure, a key press,
\* and a press of one of the five buttons under the plot.
button_press_event ==
  /\ Tick
  /\ \/ \E qx \in 0..MaxClickX, qy \in 0..MaxClickY : on_click(TRUE, qx, qy)
     \/ on_click(FALSE, 0, 0)

key_press_event == Tick /\ \E key \in Keys : on_key(key)

prev_btn == Tick /\ prev_row_button_clicked

next_btn == Tick /\ next_row_button_clicked

save_button_clicked ==
  Tick /\ \E csv_ok, plot_ok \in BOOLEAN : save_results(csv_ok, plot_ok)

switch_file_button_clicked ==
  Tick /\ \E choice \in Dialog : change_data_file(choice.new_file, choice.new_data)

save_plot_btn == Tick /\ \E ok \in BOOLEAN : save_plot(ok)

Next ==
  \/ button_press_event
  \/ key_press_event
  \/ prev_btn
  \/ next_btn
  \/ save_button_clicked
  \/ switch_file_button_clicked
  \/ save_plot_btn

Spec == Init /\ [][Next]_vars

\* ------------------------------------------------------------------- claims

\* The rows of the loaded table, and the (x, y) samples of row i.
Rows == 0..(num_rows - 1)
Samples(d, i) == {<<d.columns[k], d.rows[i + 1][k]>> : k \in 1..Len(d.columns)}

\* This step is a pointer click inside the plot, at (qx, qy).
ClickAt(qx, qy) == last' = "click" /\ on_click(TRUE, qx, qy)

\* This step is a manual-entry batch with the three texts typed.
Batch(t, l, r) == last' = "manual" /\ manual_input(t, l, r)

\* The text typed for each slot of a batch.
Typed(t, l, r) == [top |-> t, left |-> l, right |-> r]

\* C1: from an all-unset row, the 1st click of a run of clicks sets only LEFT,
\* the 2nd only TOP, the 3rd only RIGHT, and the 4th leaves the row all-unset.
C1_ClickCycle ==
  [][LET before == Selection(current_row_index)
         after == Selection(current_row_index)'
     IN  /\ clicks' = 1 =>
              after.left # None /\ after.top = None /\ after.right = None
         /\ clicks' = 2 =>
              /\ after.left = before.left /\ after.left # None
              /\ after.top # None /\ after.right = None
         /\ clicks' = 3 =>
              /\ after.left = before.left /\ after.left # None
              /\ after.top = before.top /\ after.top # None
              /\ after.right # None
         /\ clicks' = 4 => after = EmptySelection]_vars

\* The fourth click of a run has just reset the row.
C1_Witness ==
  last = "click" /\ clicks = 4 /\ Selection(current_row_index) = EmptySelection

\* C2: a manual-entry batch without a malformed text changes exactly the slots
\* of the current row a coordinate was typed for; a blank slot keeps the value
\* the row had before the batch.
C2_ManualFrame ==
  [][\A t, l, r \in Texts :
       (Batch(t, l, r) /\ \A text \in {t, l, r} : FieldOK(text)) =>
         \A slot \in Slots :
           Selection(current_row_index)'[slot] =
             IF Typed(t, l, r)[slot] = << >>
             THEN Selection(current_row_index)[slot]
             ELSE Prompt[Typed(t, l, r)[slot]].point]_vars

\* C3: in a batch with a malformed text, the malformed slot of the current row
\* is left unchanged and every well-formed text is still applied to its slot.
C3_ManualIndependent ==
  [][\A t, l, r \in Texts :
       (Batch(t, l, r) /\ \E text \in {t, l, r} : ~ FieldOK(text)) =>
         \A slot \in Slots :
           /\ ~ FieldOK(Typed(t, l, r)[slot]) =>
                Selection(current_row_index)'[slot] = Selection(current_row_index)[slot]
           /\ (FieldOK(Typed(t, l, r)[slot]) /\ Typed(t, l, r)[slot] # << >>) =>
                Selection(current_row_index)'[slot] = Prompt[Typed(t, l, r)[slot]].point]_vars

\* C4: a point a click records is one of the samples of the current row: every
\* slot a click changes is unset afterwards or holds a pair of the row.
C4_ClickRecordsSample ==
  [][last' = "click" =>
         \A slot \in Slots :
           \/ Selection(current_row_index)'[slot] = Selection(current_row_index)[slot]
           \/ Selection(current_row_index)'[slot] = None
           \/ Selection(current_row_index)'[slot] \in Samples(data, current_row_index)]_vars

\* A click has just recorded the peak (2, 2) of the first row of the first table.
C4_Witness ==
  /\ last = "click" /\ data = Files[1] /\ current_row_index = 0
  /\ clicks = 1 /\ Selection(0).left = <<2, 2>>

\* Sample k of row i is the nearest to (qx, qy): its distance is a number, no
\* sample is nearer, and no earlier sample is as near.
Nearest(d, i, k, qx, qy) ==
  LET y == d.rows[i + 1]
      sq(j) == (d.columns[j] - qx) * (d.columns[j] - qx) + (y[j] - qy) * (y[j] - qy)
  IN  /\ y[k] # NaN
      /\ \A j \in 1..Len(y) : y[j] # NaN => sq(k) <= sq(j)
      /\ \A j \in 1..(k - 1) : y[j] # NaN => sq(j) > sq(k)

\* Every slot this step sets or changes holds the sample nearest to (qx, qy).
RecordsNearest(qx, qy) ==
  \A slot \in Slots :
    (/\ Selection(current_row_index)'[slot] # Selection(current_row_index)[slot]
     /\ Selection(current_row_index)'[slot] # None) =>
      \E k \in 1..Len(data.columns) :
        /\ Selection(current_row_index)'[slot] =
             <<data.columns[k], data.rows[current_row_index + 1][k]>>
        /\ Nearest(data, current_row_index, k, qx, qy)

C5_ClickNearestNoNaN ==
  [][\A qx \in 0..MaxClickX, qy \in 0..MaxClickY :
       (/\ ClickAt(qx, qy)
        /\ \A k \in 1..Len(data.columns) : data.rows[current_row_index + 1][k] # NaN)
         => RecordsNearest(qx, qy)]_vars

\* C6: while the table stays, find_peaks runs at most once per row, and a row's
\* stored candidates stay in the cache as they are.
C6_CacheOnce ==
  [][/\ \A r \in DOMAIN calls' : calls'[r] <= 1
     /\ last' # "open" =>
          \A r \in DOMAIN peak_candidates :
            r \in DOMAIN peak_candidates' /\ peak_candidates'[r] = peak_candidates[r]]_vars

\* The candidates of the second row, computed once, were asked for again by
\* the redraw after a click on that row.
C6_Witness ==
  /\ last = "click" /\ current_row_index = 1 /\ data = Files[1]
  /\ calls[1] = 1 /\ peak_candidates[1] = Candidates(data, 1)

\* C7: clear leaves the current row all-unset, and a clear right after a clear
\* changes nothing.
C7_ClearIdempotent ==
  [][last' = "clear" =>
       /\ Selection(current_row_index)' = EmptySelection
       /\ last = "clear" =>
            UNCHANGED <<data, num_rows, current_row_index, results,
                        selected_points, heap, peak_candidates>>]_vars

\* A clear has just emptied the current row while another row holds a point.
C7_Witness ==
  /\ last = "clear" /\ Selection(current_row_index) = EmptySelection
  /\ \E r \in Rows : r # current_row_index /\ Selection(r) # EmptySelection

\* C8: next-row yields (i + 1) mod N and previous-row (i - 1 + N) mod N, by key
\* and by button (both leave last = "next", "prev"), so a next-row after a previous-row, and a previous-row after
\* a next-row, return to the row the first command left.
C8_NavigateBijection ==
  [][/\ last' = "next" =>
          /\ current_row_index' = (current_row_index + 1) % num_rows
          /\ last = "prev" => current_row_index' = came_from
     /\ last' = "prev" =>
          /\ current_row_index' = (current_row_index - 1 + num_rows) % num_rows
          /\ last = "next" => current_row_index' = came_from]_vars

\* In the three-row table a previous-row command has just wrapped from row 0
\* to row 2.
C8_Witness ==
  last = "prev" /\ num_rows = 3 /\ came_from = 0 /\ current_row_index = 2

\* C9: a next-row or previous-row command leaves every row's annotation as it
\* was.
C9_NavigateFrame ==
  [][last' \in {"next", "prev"} =>
       /\ DOMAIN results' = DOMAIN results
       /\ \A r \in DOMAIN results : Selection(r)' = Selection(r)]_vars

\* A navigation command has just left a partly filled row.
C9_Witness ==
  /\ last \in {"next", "prev"} /\ came_from # current_row_index
  /\ point_type(Selection(came_from)) \in {"top", "right"}

\* C10: after a table was replaced the current row is 0, every row of the new
\* table is all-unset, and the cache holds candidates of the new table only.
C10_ReplaceResets ==
  last = "open" =>
    /\ current_row_index = 0
    /\ num_rows = Len_data(data)
    /\ DOMAIN results = 0..(Len_data(data) - 1)
    /\ \A r \in DOMAIN results : Selection(r) = EmptySelection
    /\ \A r \in DOMAIN peak_candidates :
         r \in DOMAIN results /\ peak_candidates[r] = Candidates(data, r)

\* The one-row table has just replaced a table in which a coordinate had been
\* typed.
C10_Witness ==
  /\ last = "open" /\ num_rows = 1
  /\ heap[selected_points] # EmptySelection

\* C11: a table replacement that is cancelled, or whose file loads as nothing or
\* as a table without rows, leaves the table, the row count, the current row
\* index, every row's annotation and the candidate cache as they were.
C11_AbortedReplaceKeeps ==
  [][last' \in {"cancelled", "load_failed"} =>
       /\ UNCHANGED <<data, num_rows, current_row_index, peak_candidates>>
       /\ DOMAIN results' = DOMAIN results
       /\ \A r \in DOMAIN results : Selection(r)' = Selection(r)]_vars

\* A load has just failed on the second row of a table whose first row holds a
\* point; the candidates of both rows are in the cache.
C11_Witness ==
  /\ last = "load_failed" /\ current_row_index = 1
  /\ Selection(0) # EmptySelection /\ DOMAIN peak_candidates = {0, 1}

\* C12 as stated: in every reachable state every slot of every row is unset or
\* holds one of that row's own samples in the loaded table.
C12_SlotsHoldSamples ==
  \A r \in Rows : \A slot \in Slots :
    Selection(r)[slot] = None \/ Selection(r)[slot] \in Samples(data, r)

\* C12 as amended: the same in every state reached without manual entry, which
\* stores the typed pair as it is.
C12_SlotsHoldSamplesUntyped ==
  ~ typed =>
    \A r \in Rows : \A slot \in Slots :
      Selection(r)[slot] = None \/ Selection(r)[slot] \in Samples(data, r)

\* Without manual entry, two rows of the first table hold a clicked point each.
C12_Witness ==
  /\ ~ typed /\ data = Files[1]
  /\ Selection(0).left # None /\ Selection(1).left # None

\* C13: in every reachable state the current row index is at least 0 and below
\* the row count, which is the number of rows of the loaded table.
C13_IndexInRange ==
  /\ num_rows = Len_data(data)
  /\ current_row_index \in 0..(num_rows - 1)

\* The one-row table has just replaced the three-row table while its last row
\* was shown.
C13_Witness ==
  last = "open" /\ came_from = 2 /\ num_rows = 1 /\ current_row_index = 0

\* C14: a save-all-plots command on a table of N rows calls save_plot for the
\* row indices 0, 1, ..., N-1, once each and in this order.
C14_SaveAllOrder ==
  last = "save_all" =>
    [k \in 1..Len(saved_plots) |-> saved_plots[k].row] = range(num_rows)

\* The x and y fields of a record for a slot whose stored value is p: both the
\* stored numbers when p is set, both null when it is unset.
Carries(x, y, p) ==
  IF p = None THEN x = None /\ y = None ELSE x = << p[1] >> /\ y = << p[2] >>

\* C15: the save command builds one record per row index 0..N-1, in ascending
\* order; the record of row i carries the label of row i and, for each slot,
\* the stored x and y when the slot is set and null for both when it is unset.
C15_SaveRecords ==
  last = "save" =>
    /\ Len(output_data) = num_rows
    /\ \A i \in Rows :
         LET rec == output_data[i + 1]
             sel == Selection(i)
         IN  /\ rec.RowLabel = data.index[i + 1]
             /\ Carries(rec.Left_X, rec.Left_Y, sel.left)
             /\ Carries(rec.Top_X, rec.Top_Y, sel.top)
             /\ Carries(rec.Right_X, rec.Right_Y, sel.right)

\* A save has just built the records of the three-row table: the first row has
\* LEFT set and TOP unset, the second row was reset by clear after the first.
C15_Witness ==
  /\ last = "save" /\ Len(output_data) = 3
  /\ output_data[1].Left_X # None /\ output_data[1].Top_X = None
  /\ output_data[2].Left_X = None
  /\ results[1] = selected_points

C17_SaveFrame ==
  [][last' \in {"save", "plot", "save_all"} =>
       /\ UNCHANGED <<data, num_rows, current_row_index>>
       /\ DOMAIN results' = DOMAIN results
       /\ \A r \in DOMAIN results : Selection(r)' = Selection(r)]_vars

\* A save whose CSV write failed (no plot was saved after it) has just run on
\* the second row of a table whose first row holds a point.
C17_Witness ==
  /\ last = "save" /\ saved_plots = << >> /\ output_data # << >>
  /\ current_row_index = 1 /\ Selection(0) # EmptySelection

\* The set slots of sel are a prefix of LEFT, TOP, RIGHT.
Prefix(sel) ==
  /\ sel.top # None => sel.left # None
  /\ sel.right # None => sel.top # None

\* All three slots of sel are set.
Full(sel) == sel.left # None /\ sel.top # None /\ sel.right # None

\* C19: as long as no manual entry has run, in every row TOP is set only if
\* LEFT is and RIGHT only if TOP is; and a click on a row with all three set
\* leaves it with all three set or all three unset, never in between.
C19_PrefixWithoutManual ==
  /\ \A r \in Rows : Prefix(Selection(r))
  /\ [][~ typed' =>
          /\ \A r \in DOMAIN results' : Prefix(Selection(r)')
          /\ (last' = "click" /\ Full(Selection(current_row_index))) =>
               \/ Full(Selection(current_row_index)')
               \/ Selection(current_row_index)' = EmptySelection]_vars

\* Without manual entry, one row holds LEFT and TOP and another holds LEFT only.
C19_Witness ==
  /\ ~ typed
  /\ \E r, q \in Rows :
       /\ point_type(Selection(r)) = "right"
       /\ point_type(Selection(q)) = "top"

\* The slots in the order a click fills them, and the first of them that sel
\* leaves unset.
Order == <<"left", "top", "right">>
FirstUnset(sel) ==
  Order[CHOOSE k \in 1..3 :
          sel[Order[k]] = None /\ \A j \in 1..(k - 1) : sel[Order[j]] # None]

\* C20: whatever the current row holds, also after manual entry, a click on it
\* with a slot unset writes the point snapped from the click into the first
\* unset slot of LEFT, TOP, RIGHT and leaves the other two slots as they were;
\* a click on it with all three set leaves it all-unset.
C20_ClickFromContents ==
  [][last' = "click" =>
       LET before == Selection(current_row_index)
           after == Selection(current_row_index)'
       IN  IF Full(before)
           THEN after = EmptySelection
           ELSE \E qx \in 0..MaxClickX, qy \in 0..MaxClickY :
                  after = [before EXCEPT ![FirstUnset(before)] =
                             closest_point(data, current_row_index, qx, qy)]]_vars

\* After TOP alone was typed for the first row of the first table, a click has
\* just filled LEFT and left the typed TOP as it was.
C20_Witness ==
  /\ last = "click" /\ typed /\ data = Files[1] /\ current_row_index = 0
  /\ Selection(0).top = <<2, 1>> /\ Selection(0).left # None
  /\ Selection(0).right = None

\* C21: a click, a clear or a manual entry made while row r is current leaves
\* the annotation of every other row as it was, and no two rows hold the same
\* annotation object.
C21_OtherRowsUnchanged ==
  [][last' \in {"click", "clear", "manual"} =>
       /\ \A r \in DOMAIN results \ {current_row_index} :
            Selection(r)' = Selection(r)
       /\ \A r, q \in DOMAIN results' : r # q => results'[r] # results'[q]]_vars

\* C22: every key of the candidate cache is a row index of the loaded table,
\* and the sequence cached for it is the peaks the peak finder gives for that
\* row of the loaded table, in its order, each as the (x, y) sample at the peak.
C22_CacheMatchesTable ==
  \A r \in DOMAIN peak_candidates :
    /\ r \in 0..(Len_data(data) - 1)
    /\ LET peaks == find_peaks(data.rows[r + 1])
       IN  /\ Len(peak_candidates[r]) = Len(peaks)
           /\ \A k \in 1..Len(peaks) :
                /\ peak_candidates[r][k] =
                     <<data.columns[peaks[k]], data.rows[r + 1][peaks[k]]>>
                /\ peak_candidates[r][k] \in Samples(data, r)

\* The three-row table was loaded again while its second row was shown: the
\* cache, which held two rows, holds the peak (2, 2) of the first row only.
C22_Witness ==
  /\ last = "open" /\ came_from = 1 /\ data = Files[1]
  /\ DOMAIN peak_candidates = {0} /\ peak_candidates[0] = << <<2, 2>> >>

\* C23: results has an entry for exactly the row indices 0..N-1 of the loaded
\* table, each a dict of the three slots, so results[current_row_index] is
\* always there; and no command but a table replacement changes the keys.
C23_ResultsCoverRows ==
  /\ [](/\ DOMAIN results = 0..(Len_data(data) - 1)
        /\ {keys[k] : k \in 1..Len(keys)} = 0..(Len_data(data) - 1)
        /\ Len(keys) = Len_data(data)
        /\ current_row_index \in DOMAIN results
        /\ \A r \in DOMAIN results :
             results[r] \in DOMAIN heap /\ DOMAIN Selection(r) = Slots)
  /\ [][last' # "open" => DOMAIN results' = DOMAIN results /\ keys' = keys]_vars

\* On the last row of the three-row table a clear, which binds a new dict to
\* the row's key, has just followed a manual entry, which binds the global one.
C23_Witness ==
  /\ last = "clear" /\ typed /\ num_rows = 3 /\ current_row_index = 2
  /\ results[2] = selected_points /\ keys = <<0, 1, 2>>

=============================================================================
